---- MODULE Spec2Model ----
(***************************************************************************)
(* Model of python/log_parser/log_parser.py: the access-log pipeline       *)
(* read_lines -> parse_log_line -> aggregation loop of main ->             *)
(* Counter.most_common -> make_html_report -> report file.                 *)
(*                                                                         *)
(* A Python str is a sequence of one-character strings.  A Counter is the  *)
(* sequence of its <<key, count>> items in insertion order (a dict keeps   *)
(* insertion order).                                                       *)
(***************************************************************************)
EXTENDS Integers, Sequences, FiniteSets, TLC

VARIABLES
    args,            \* argparse.Namespace: input, output, top, max_lines
    fs_isfile,       \* os.path.isfile(args.input)
    source,          \* the lines of the input file as iterating it gives them
    pc,              \* position in main: "start", "loop", "done", "exit"
    idx,             \* read_lines: lines fetched from the file so far
    line,            \* main: the line of the current iteration
    parsed,          \* main: parse_log_line(line) of the current iteration
    total_lines,
    parsed_lines,
    malformed_lines,
    errors_sample,
    ip_counts,
    ua_counts,
    status_counts,
    top_ips,
    top_uas,
    html_out,        \* make_html_report's result
    out_file,        \* content of args.output on disk (None: not written)
    stderr,          \* messages printed to sys.stderr
    stdout,          \* messages printed to sys.stdout
    rc,              \* main's return value: <<>> while running, <<code>> after
    locals           \* the names of main's local variables bound so far

vars == <<args, fs_isfile, source, pc, idx, line, parsed, total_lines,
          parsed_lines, malformed_lines, errors_sample, ip_counts, ua_counts,
          status_counts, top_ips, top_uas, html_out, out_file, stderr,
          stdout, rc, locals>>

\* Python's None, for values that are a str, a dict or an int otherwise.
None == [none |-> TRUE]

Min(a, b) == IF a <= b THEN a ELSE b
Max(a, b) == IF a >= b THEN a ELSE b

----------------------------------------------------------------------------
(* Characters and character classes of the `re` module.                    *)

Digits == <<"0", "1", "2", "3", "4", "5", "6", "7", "8", "9">>

IsDigit(c) == \E d \in 1..10 : Digits[d] = c

DigitValue(c) == (CHOOSE d \in 1..10 : Digits[d] = c) - 1

\* \s of a str pattern; the models' lines use blank, tab, CR and LF only.
IsSpace(c) == c \in {" ", "\t", "\r", "\n"}

\* Whether character c is in class cls of LOG_PATTERN.
InClass(c, cls) ==
    CASE cls = "s"        -> IsSpace(c)           \* \s
      [] cls = "S"        -> ~IsSpace(c)          \* \S
      [] cls = "d"        -> IsDigit(c)           \* \d
      [] cls = "[^]]"     -> c # "]"
      [] cls = "[^\"]"    -> c # "\""
      [] OTHER            -> c = cls              \* a literal character

\* One element of the pattern: a class, its quantifier ("1", "+" or "*") and
\* the named group it belongs to ("" for none).
El(cls, q, g) == [cls |-> cls, q |-> q, g |-> g]

\* LOG_PATTERN, element by element; the closing $ is AtEnd below.
LOG_PATTERN ==
    << El("S", "+", "ip"), El("s", "+", ""), El("S", "+", ""), El("s", "+", ""),
       El("S", "+", ""), El("s", "+", ""),
       El("[", "1", ""), El("[^]]", "+", "time"), El("]", "1", ""), El("s", "+", ""),
       El("\"", "1", ""), El("S", "+", "method"), El("s", "+", ""),
       El("S", "+", "path"), El("s", "+", ""), El("[^\"]", "+", "proto"),
       El("\"", "1", ""), El("s", "+", ""),
       El("d", "1", "status"), El("d", "1", "status"), El("d", "1", "status"),
       El("s", "+", ""), El("S", "+", "size"), El("s", "+", ""),
       El("\"", "1", ""), El("[^\"]", "*", "referer"), El("\"", "1", ""),
       El("s", "+", ""),
       El("\"", "1", ""), El("[^\"]", "*", "ua"), El("\"", "1", ""),
       El("s", "*", "") >>

\* Mutant: the pattern without its closing $.
AtEnd_Unanchored(s, li) == TRUE

\* $ without re.MULTILINE: the end of the string, or just before a newline
\* that ends the string.
AtEnd(s, li) ==
    \/ li = Len(s) + 1
    \/ li = Len(s) /\ s[li] = "\n"

MinCount(pi) == IF LOG_PATTERN[pi].q = "*" THEN 0 ELSE 1

RECURSIVE RunLen(_, _, _, _)
\* How many characters of s from position li on are in class cls, up to lim.
RunLen(s, cls, li, lim) ==
    IF lim <= 0 \/ li > Len(s) THEN 0
    ELSE IF ~InClass(s[li], cls) THEN 0
    ELSE 1 + RunLen(s, cls, li + 1, lim - 1)

\* The most characters element pi can take from position li (greedy).
MaxRun(s, pi, li) ==
    RunLen(s, LOG_PATTERN[pi].cls, li, IF LOG_PATTERN[pi].q = "1" THEN 1 ELSE Len(s))

NoMatch == [ok |-> FALSE, lens |-> <<>>]

RECURSIVE MatchFrom(_, _, _)
RECURSIVE TryCount(_, _, _, _)
\* The backtracking matcher: elements pi.. against s from position li.  The
\* result gives the number of characters each element took.
MatchFrom(s, pi, li) ==
    IF pi > Len(LOG_PATTERN)
    THEN IF AtEnd(s, li) THEN [ok |-> TRUE, lens |-> <<>>] ELSE NoMatch
    ELSE TryCount(s, pi, li, MaxRun(s, pi, li))

\* Element pi taking n characters, then fewer (a greedy quantifier backs off
\* one character at a time).
TryCount(s, pi, li, n) ==
    IF n < MinCount(pi) THEN NoMatch
    ELSE LET r == MatchFrom(s, pi + 1, li + n)
         IN  IF r.ok THEN [ok |-> TRUE, lens |-> <<n>> \o r.lens]
             ELSE TryCount(s, pi, li, n - 1)

\* LOG_PATTERN.match(line)
PatternMatch(s) == MatchFrom(s, 1, 1)

RECURSIVE SumTo(_, _)
SumTo(lens, n) == IF n = 0 THEN 0 ELSE lens[n] + SumTo(lens, n - 1)

\* m.groupdict()[g]: the text the elements of group g took.
Group(s, m, g) ==
    LET els   == {i \in 1..Len(LOG_PATTERN) : LOG_PATTERN[i].g = g}
        first == CHOOSE i \in els : \A j \in els : i <= j
        last  == CHOOSE i \in els : \A j \in els : j <= i
    IN  SubSeq(s, SumTo(m.lens, first - 1) + 1, SumTo(m.lens, last))

----------------------------------------------------------------------------
(* safe_int and parse_log_line.                                            *)

RECURSIVE DigitsValue(_)
DigitsValue(s) ==
    IF s = <<>> THEN 0
    ELSE 10 * DigitsValue(SubSeq(s, 1, Len(s) - 1)) + DigitValue(s[Len(s)])

\* int(x) of a str with no blanks: an optional sign and one or more digits;
\* anything else raises ValueError (ok = FALSE).
PyInt(x) ==
    LET signed == x # <<>> /\ x[1] \in {"+", "-"}
        body   == IF signed THEN Tail(x) ELSE x
    IN  IF body # <<>> /\ \A i \in 1..Len(body) : IsDigit(body[i])
        THEN [ok |-> TRUE,
              val |-> IF signed /\ x[1] = "-" THEN 0 - DigitsValue(body)
                      ELSE DigitsValue(body)]
        ELSE [ok |-> FALSE, val |-> 0]

safe_int(x, default) == IF PyInt(x).ok THEN PyInt(x).val ELSE default

parse_log_line(l) ==
    LET m == PatternMatch(l)
    IN  IF ~m.ok THEN None
        ELSE [ip      |-> Group(l, m, "ip"),
              time    |-> Group(l, m, "time"),
              method  |-> Group(l, m, "method"),
              path    |-> Group(l, m, "path"),
              proto   |-> Group(l, m, "proto"),
              status  |-> safe_int(Group(l, m, "status"), 0),
              size    |-> IF Group(l, m, "size") = <<"-">> THEN 0
                          ELSE safe_int(Group(l, m, "size"), 0),
              referer |-> Group(l, m, "referer"),
              ua      |-> Group(l, m, "ua")]

----------------------------------------------------------------------------
(* collections.Counter.                                                    *)

HasKey(c, k) == \E i \in 1..Len(c) : c[i][1] = k

\* c[k], with Counter's 0 for a missing key.
CountOf(c, k) ==
    IF HasKey(c, k) THEN c[CHOOSE i \in 1..Len(c) : c[i][1] = k][2] ELSE 0

\* c[k] += 1: a new key is inserted last, an old one keeps its place.
Incr(c, k) ==
    IF HasKey(c, k)
    THEN [i \in 1..Len(c) |-> IF c[i][1] = k THEN <<k, c[i][2] + 1>> ELSE c[i]]
    ELSE Append(c, <<k, 1>>)

\* sorted(c.items(), key=itemgetter(1), reverse=True): a stable sort, so items
\* of equal count keep their insertion order.
ByCountDesc(c) ==
    LET Before(j, i) == c[j][2] > c[i][2] \/ (c[j][2] = c[i][2] /\ j < i)
        Rank(i) == 1 + Cardinality({j \in 1..Len(c) : Before(j, i)})
    IN  [p \in 1..Len(c) |-> c[CHOOSE i \in 1..Len(c) : Rank(i) = p]]

\* c.most_common(n) = heapq.nlargest(n, c.items(), key=itemgetter(1)), which
\* is sorted(..., reverse=True)[:n], and [] when n <= 0.
most_common(c, n) ==
    IF n <= 0 THEN <<>> ELSE SubSeq(ByCountDesc(c), 1, Min(n, Len(c)))

\* sorted(status_counts.items()): ascending status (the keys are unique).
SortedItems(c) ==
    LET Rank(i) == 1 + Cardinality({j \in 1..Len(c) : c[j][1] < c[i][1]})
    IN  [p \in 1..Len(c) |-> c[CHOOSE i \in 1..Len(c) : Rank(i) = p]]

\* Mutant: the requested count is not clamped.
TopN_NoClamp(top) == top

\* top_n = max(1, args.top)
TopN(top) == Max(1, top)

----------------------------------------------------------------------------
(* html.escape, str() and make_html_report.                                *)

RECURSIVE Replace(_, _, _)
\* s.replace(c, rep) for a one-character c
Replace(s, c, rep) ==
    IF s = <<>> THEN <<>>
    ELSE (IF Head(s) = c THEN rep ELSE <<Head(s)>>) \o Replace(Tail(s), c, rep)

AMP  == <<"&", "a", "m", "p", ";">>
LT   == <<"&", "l", "t", ";">>
GT   == <<"&", "g", "t", ";">>
QUOT == <<"&", "q", "u", "o", "t", ";">>
APOS == <<"&", "#", "x", "2", "7", ";">>

\* Mutant: html.escape(s, quote=False).
escape_NoQuote(s) ==
    Replace(Replace(Replace(s, "&", AMP), "<", LT), ">", GT)

\* html.escape(s, quote=True): & first, then <, >, and the two quotes.
escape(s) ==
    Replace(Replace(Replace(Replace(Replace(s, "&", AMP), "<", LT), ">", GT),
                    "\"", QUOT), "'", APOS)

RECURSIVE NatStr(_)
NatStr(n) == IF n < 10 THEN <<Digits[n + 1]>>
             ELSE NatStr(n \div 10) \o <<Digits[(n % 10) + 1]>>

\* str(n) of an int
Str(n) == IF n < 0 THEN <<"-">> \o NatStr(0 - n) ELSE NatStr(n)

RECURSIVE Join(_, _)
\* sep.join(parts)
Join(parts, sep) ==
    IF parts = <<>> THEN <<>>
    ELSE IF Len(parts) = 1 THEN parts[1]
    ELSE parts[1] \o sep \o Join(Tail(parts), sep)

TD_OPEN    == <<"<", "t", "d", ">">>
TD_CLOSE   == <<"<", "/", "t", "d", ">">>
TR_OPEN    == <<"<", "t", "r", ">">>
TR_CLOSE   == <<"<", "/", "t", "r", ">">>
UL_OPEN    == <<"<", "u", "l", ">">>
UL_CLOSE   == <<"<", "/", "u", "l", ">">>
LI_OPEN    == <<"<", "l", "i", ">", "<", "c", "o", "d", "e", ">">>
LI_CLOSE   == <<"<", "/", "c", "o", "d", "e", ">", "<", "/", "l", "i", ">">>
NO_ERRORS  == <<"<", "p", ">", "N", "o", " ", "m", "a", "l", "f", "o", "r", "m",
                "e", "d", " ", "l", "i", "n", "e", "s", " ", "f", "o", "u", "n",
                "d", ".", "<", "/", "p", ">">>

\* tr(cells), the cells given as str(c) of each cell.
tr(cells) ==
    TR_OPEN
    \o Join([i \in 1..Len(cells) |-> TD_OPEN \o escape(cells[i]) \o TD_CLOSE], <<>>)
    \o TR_CLOSE

\* "\n".join(tr([k, cnt]) for k, cnt in items) or tr(["-", 0]); keys as str.
Rows(items) ==
    LET joined == Join([i \in 1..Len(items) |-> tr(<<items[i][1], Str(items[i][2])>>)],
                       <<"\n">>)
    IN  IF joined = <<>> THEN tr(<<<<"-">>, Str(0)>>) ELSE joined

\* The malformed lines the report shows: errors_sample[:20].
ShownErrors == 20

\* Mutant: the whole sample is shown.
ShownErrorsSlice_All(sample) == sample

ShownErrorsSlice(sample) == SubSeq(sample, 1, Min(ShownErrors, Len(sample)))

\* errors_html of make_html_report
ErrorsHtml(sample) ==
    IF sample # <<>>
    THEN LET shown == ShownErrorsSlice(sample)
         IN  UL_OPEN
             \o Join([i \in 1..Len(shown) |-> LI_OPEN \o escape(shown[i]) \o LI_CLOSE],
                     <<"\n">>)
             \o UL_CLOSE
    ELSE NO_ERRORS

\* datetime.now().strftime("%Y-%m-%d %H:%M:%S"): digits, "-", ":" and a blank.
NowText == <<"2", "0", "0", "0", "-", "1", "0", "-", "1", "0", " ",
             "1", "3", ":", "5", "5", ":", "3", "6">>

\* report_title of main
ReportTitle == <<"W", "e", "b", " ", "S", "e", "r", "v", "e", "r", " ", "L", "o", "g",
                 " ", "R", "e", "p", "o", "r", "t", " ", "(", "A", "p", "a", "c", "h",
                 "e", "/", "N", "g", "i", "n", "x", ")">>

\* make_html_report: the values the f-string template interpolates, each as
\* the code computes it.  The template's own text holds no program data.
make_html_report(title, summary, tips, tuas, statuses, sample) ==
    [title       |-> escape(title),
     now         |-> escape(NowText),
     summary     |-> << tr(<<<<"I", "n", "p", "u", "t", " ", "f", "i", "l", "e">>,
                             summary.input_file>>),
                        tr(<<<<"T", "o", "t", "a", "l", " ", "l", "i", "n", "e", "s">>,
                             Str(summary.total_lines)>>),
                        tr(<<<<"P", "a", "r", "s", "e", "d", " ", "l", "i", "n", "e", "s">>,
                             Str(summary.parsed_lines)>>),
                        tr(<<<<"M", "a", "l", "f", "o", "r", "m", "e", "d", " ", "l", "i",
                               "n", "e", "s">>,
                             Str(summary.malformed_lines)>>) >>,
     rows_ips    |-> Rows(tips),
     rows_uas    |-> Rows(tuas),
     rows_status |-> LET items == SortedItems(statuses)
                     IN  Rows([i \in 1..Len(items) |->
                                  <<Str(items[i][1]), items[i][2]>>]),
     errors_html |-> ErrorsHtml(sample)]

----------------------------------------------------------------------------
(* read_lines.                                                             *)

RECURSIVE RStripNewline(_)
\* line.rstrip("\n")
RStripNewline(l) ==
    IF l # <<>> /\ l[Len(l)] = "\n" THEN RStripNewline(SubSeq(l, 1, Len(l) - 1))
    ELSE l

\* Mutant: the cap is passed one line early.
HasNext_OffByOne ==
    idx < Len(source) /\ ~(args.max_lines # 0 /\ idx + 1 >= args.max_lines)

\* The generator has another line to yield: the file has one, and the cap
\* (when max_lines is truthy) is not passed by it.
HasNext == idx < Len(source) /\ ~(args.max_lines # 0 /\ idx + 1 > args.max_lines)

----------------------------------------------------------------------------
(* main.                                                                   *)

\* The malformed lines kept in errors_sample.
SampleCap == 50

\* The locals of lines 137-144.
AggregateLocals == {"ip_counts", "ua_counts", "status_counts", "total_lines",
                    "parsed_lines", "malformed_lines", "errors_sample"}

\* Mutant: the error is printed and main goes on to aggregate.
InputMissing_NoReturn ==
    /\ pc = "start"
    /\ ~fs_isfile
    /\ stderr' = Append(stderr, [msg |-> "ERROR: input file not found", path |-> args.input])
    /\ locals' = locals \cup AggregateLocals
    /\ pc' = "loop"
    /\ UNCHANGED <<args, fs_isfile, source, idx, line, parsed, total_lines,
                   parsed_lines, malformed_lines, errors_sample, ip_counts,
                   ua_counts, status_counts, top_ips, top_uas, html_out,
                   out_file, stdout, rc>>

\* Lines 133-135: the input is not a file.
InputMissing ==
    /\ pc = "start"
    /\ ~fs_isfile
    /\ stderr' = Append(stderr, [msg |-> "ERROR: input file not found", path |-> args.input])
    /\ rc' = <<1>>
    /\ pc' = "exit"
    /\ UNCHANGED <<args, fs_isfile, source, idx, line, parsed, total_lines,
                   parsed_lines, malformed_lines, errors_sample, ip_counts,
                   ua_counts, status_counts, top_ips, top_uas, html_out,
                   out_file, stdout, locals>>

\* Lines 137-144: the counters and tables are created, empty.
Begin ==
    /\ pc = "start"
    /\ fs_isfile
    /\ ip_counts' = <<>>
    /\ ua_counts' = <<>>
    /\ status_counts' = <<>>
    /\ total_lines' = 0
    /\ parsed_lines' = 0
    /\ malformed_lines' = 0
    /\ errors_sample' = <<>>
    /\ locals' = locals \cup AggregateLocals
    /\ pc' = "loop"
    /\ UNCHANGED <<args, fs_isfile, source, idx, line, parsed, top_ips, top_uas,
                   html_out, out_file, stderr, stdout, rc>>

\* Mutant: a malformed line is counted only when it is sampled.
MalformedBranch_CountSampled(l) ==
    /\ malformed_lines' = IF Len(errors_sample) < SampleCap
                          THEN malformed_lines + 1 ELSE malformed_lines
    /\ errors_sample' = IF Len(errors_sample) < SampleCap
                        THEN Append(errors_sample, l)
                        ELSE errors_sample
    /\ UNCHANGED <<parsed_lines, ip_counts, ua_counts, status_counts>>

\* Mutant: the cap is tested with <=.
MalformedBranch_CapLe(l) ==
    /\ malformed_lines' = malformed_lines + 1
    /\ errors_sample' = IF Len(errors_sample) <= SampleCap
                        THEN Append(errors_sample, l)
                        ELSE errors_sample
    /\ UNCHANGED <<parsed_lines, ip_counts, ua_counts, status_counts>>

\* Lines 150-153: the line did not parse.
MalformedBranch(l) ==
    /\ malformed_lines' = malformed_lines + 1
    /\ errors_sample' = IF Len(errors_sample) < SampleCap
                        THEN Append(errors_sample, l)
                        ELSE errors_sample
    /\ UNCHANGED <<parsed_lines, ip_counts, ua_counts, status_counts>>

\* Mutant: the user agent is not counted.
ParsedBranch_NoUa(p) ==
    /\ parsed_lines' = parsed_lines + 1
    /\ ip_counts' = Incr(ip_counts, p.ip)
    /\ status_counts' = Incr(status_counts, p.status)
    /\ UNCHANGED <<ua_counts, malformed_lines, errors_sample>>

\* Lines 155-158: the line parsed to p.
ParsedBranch(p) ==
    /\ parsed_lines' = parsed_lines + 1
    /\ ip_counts' = Incr(ip_counts, p.ip)
    /\ ua_counts' = Incr(ua_counts, p.ua)
    /\ status_counts' = Incr(status_counts, p.status)
    /\ UNCHANGED <<malformed_lines, errors_sample>>

\* Lines 146-158: one iteration of the loop over read_lines.
Iterate ==
    /\ pc = "loop"
    /\ HasNext
    /\ LET l == RStripNewline(source[idx + 1])
           p == parse_log_line(l)
       IN  /\ idx' = idx + 1
           /\ line' = l
           /\ parsed' = p
           /\ total_lines' = total_lines + 1
           /\ IF p = None THEN MalformedBranch(l) ELSE ParsedBranch(p)
    /\ locals' = locals \cup {"line", "parsed"}
    /\ UNCHANGED <<args, fs_isfile, source, pc, top_ips, top_uas, html_out,
                   out_file, stderr, stdout, rc>>

\* Lines 160-179: the generator is exhausted; the report is made and written.
Finish ==
    /\ pc = "loop"
    /\ ~HasNext
    /\ LET top_n   == TopN(args.top)
           summary == [input_file      |-> args.input,
                       total_lines     |-> total_lines,
                       parsed_lines    |-> parsed_lines,
                       malformed_lines |-> malformed_lines]
           tips    == most_common(ip_counts, top_n)
           tuas    == most_common(ua_counts, top_n)
           doc     == make_html_report(ReportTitle, summary, tips, tuas,
                                       status_counts, errors_sample)
       IN  /\ top_ips' = tips
           /\ top_uas' = tuas
           /\ html_out' = doc
           /\ out_file' = doc
    /\ stdout' = stdout \o << [msg |-> "OK: report generated", path |-> args.output],
                              [msg |-> "Total lines", total |-> total_lines,
                               parsed |-> parsed_lines, malformed |-> malformed_lines] >>
    /\ rc' = <<0>>
    /\ locals' = locals \cup {"top_n", "top_ips", "top_uas", "summary",
                              "report_title", "html_out"}
    /\ pc' = "done"
    /\ UNCHANGED <<args, fs_isfile, source, idx, line, parsed, total_lines,
                   parsed_lines, malformed_lines, errors_sample, ip_counts,
                   ua_counts, status_counts, stderr>>

Next == InputMissing \/ Begin \/ Iterate \/ Finish

----------------------------------------------------------------------------
(* Inputs: log lines, files and command lines.                             *)

Q == <<"\"">>

\* A line in the layout of the combined log format, from its parts: text
\* before the address, the address, the bracket closing the timestamp, the
\* quotes around the request, the status and size tokens, the user agent and
\* text after its closing quote.
LogLine(pre, ip, rbr, q1, q2, status, size, ua, post) ==
    pre \o ip \o <<" ", "-", " ", "-", " ", "[", "t">> \o rbr \o <<" ">>
        \o q1 \o <<"G", " ", "/", " ", "H">> \o q2 \o <<" ">>
        \o status \o <<" ">> \o size \o <<" ">> \o Q \o <<"-">> \o Q
        \o <<" ">> \o Q \o ua \o Q \o post

GoodLine(ip, status, size, ua) ==
    LogLine(<<>>, ip, <<"]">>, Q, Q, status, size, ua, <<>>)

S200 == <<"2", "0", "0">>
S404 == <<"4", "0", "4">>
S007 == <<"0", "0", "7">>

\* The lines the files of Spec are made of: three that parse (one with markup
\* in the address and the user agent) and three that do not.
Catalogue ==
    << GoodLine(<<"a">>, S200, <<"5">>, <<"U">>),
       GoodLine(<<"b">>, S404, <<"-">>, <<"<", "b", ">">>),
       GoodLine(<<"<", "&">>, S007, <<"x">>, <<"'", "<", "&">>),
       <<"<", "b", ">", "&", "\"", "'">>,
       <<"x">>,
       <<>> >>

\* The file whose lines are the catalogue's lines ixs; every line ends with a
\* newline, the last one only when finalNL.
FileOf(cat, ixs, finalNL) ==
    [i \in 1..Len(ixs) |->
        IF i < Len(ixs) \/ finalNL THEN cat[ixs[i]] \o <<"\n">> ELSE cat[ixs[i]]]

\* All index sequences of length 0..n over 1..k.
SeqsUpTo(k, n) == UNION {[1..m -> 1..k] : m \in 0..n}

\* The first n lines of the endless repetition of pattern p.
Periodic(p, n) == [i \in 1..n |-> p[((i - 1) % Len(p)) + 1]]

MaxShortLen == 2
MaxLongLen  == 53
MaxTop      == 1
MaxCap      == 2

\* The last pattern is one line that parses and then malformed ones only.
LongPatterns ==
    {<<4>>, <<5, 2, 4>>, <<1, 5, 2, 3, 1>>, <<3>> \o [i \in 1..(2 * SampleCap) |-> 4]}

\* A file name with markup in it.
InputName == <<"<", "a", ">", "&", "\"", ".", "l", "o", "g">>

OutputName == <<"r", "e", "p", "o", "r", "t", ".", "h", "t", "m", "l">>

\* Before main runs: nothing read, nothing bound, nothing printed or written.
InitRest ==
    /\ pc = "start"
    /\ idx = 0
    /\ line = <<>>
    /\ parsed = None
    /\ total_lines = 0
    /\ parsed_lines = 0
    /\ malformed_lines = 0
    /\ errors_sample = <<>>
    /\ ip_counts = <<>>
    /\ ua_counts = <<>>
    /\ status_counts = <<>>
    /\ top_ips = <<>>
    /\ top_uas = <<>>
    /\ html_out = None
    /\ out_file = None
    /\ stderr = <<>>
    /\ stdout = <<>>
    /\ rc = <<>>
    /\ locals = {}

ArgsOf(top, max_lines) ==
    [input |-> InputName, output |-> OutputName, top |-> top, max_lines |-> max_lines]

\* A path that is no file has no lines.
InitMissing(tops, caps) ==
    /\ fs_isfile = FALSE
    /\ source = <<>>
    /\ \E top \in tops, m \in caps : args = ArgsOf(top, m)

InitFile(sources, tops, caps) ==
    /\ fs_isfile = TRUE
    /\ source \in sources
    /\ \E top \in tops, m \in caps : args = ArgsOf(top, m)

\* Iterating a file never gives an empty string: an empty last line without
\* a newline is no line at all.
TextFiles(files) == {f \in files : \A i \in 1..Len(f) : f[i] # <<>>}

Sources ==
    TextFiles({FileOf(Catalogue, ixs, nl) :
                   ixs \in SeqsUpTo(Len(Catalogue), MaxShortLen), nl \in BOOLEAN})
    \cup {FileOf(Catalogue, Periodic(p, MaxLongLen), TRUE) : p \in LongPatterns}

Tops == 0..MaxTop

\* The caps on the line count: none (0), small ones, and one past the sample.
Caps == (0..MaxCap) \cup {SampleCap + 1}

Init ==
    /\ InitRest
    /\ (InitMissing(Tops, Caps) \/ InitFile(Sources, Tops, Caps))

Spec == Init /\ [][Next]_vars

\* main runs to its end: weak fairness of Next.  ENABLED <<Next>>_vars is
\* written out as what it amounts to, pc \in {"start", "loop"}: at "start"
\* InputMissing or Begin can step, at "loop" Iterate or Finish, and each
\* changes pc or idx.
FairSpec ==
    Spec /\ ([]<>(pc \notin {"start", "loop"}) \/ []<><<Next>>_vars)

----------------------------------------------------------------------------
(* Inputs for the parser: single-line files, the line a well-formed one    *)
(* with text added before or after it, a bracket or a quote dropped, and   *)
(* various size tokens.                                                    *)

Pres   == {<<>>, <<" ">>, <<"\t">>, <<"x">>}
Posts  == {<<>>, <<" ">>, <<"\t", " ">>, <<"x">>, <<" ", "x">>, <<"\"">>}
Sizes  == {<<"5">>, <<"-">>, <<"-", "5">>, <<"x">>, <<"1", "2">>, <<"+", "7">>,
           <<"5", "x">>, <<"0", "0", "7">>}
Agents == {<<"U">>, <<>>, <<"<", "b", ">">>}
Stats  == {S200, <<"2", "0">>}

ParseLines ==
    {LogLine(pre, <<"a">>, rbr, q1, q2, st, size, ua, post) :
        pre \in Pres, rbr \in {<<"]">>, <<>>}, q1 \in {Q, <<>>}, q2 \in {Q, <<>>},
        st \in Stats, size \in Sizes, ua \in Agents, post \in Posts}

InitParse ==
    /\ InitRest
    /\ \/ InitMissing({1}, {0})
       \/ InitFile({<<l \o <<"\n">> >> : l \in ParseLines}, {1}, {0})

SpecParse == InitParse /\ [][Next]_vars

----------------------------------------------------------------------------
(* Inputs for the rankings: files over three addresses and two user agents *)
(* and a line that does not parse, and requested counts from -1 up.        *)

MaxRankLen == 4
MaxRankTop == 3

RankCatalogue ==
    << GoodLine(<<"a">>, S200, <<"5">>, <<"U">>),
       GoodLine(<<"b">>, S404, <<"-">>, <<"V">>),
       GoodLine(<<"c">>, S200, <<"5">>, <<"U">>),
       <<"x">> >>

InitRank ==
    /\ InitRest
    /\ \/ InitMissing({1}, {0})
       \/ InitFile({FileOf(RankCatalogue, ixs, TRUE) :
                        ixs \in SeqsUpTo(Len(RankCatalogue), MaxRankLen)},
                   (-1)..MaxRankTop, {0})

SpecRank == InitRank /\ [][Next]_vars

----------------------------------------------------------------------------
(* Properties.                                                             *)

\* The loop has run at least once: line and parsed are those of the last
\* line read.
Iterated == pc \in {"loop", "done"} /\ idx >= 1

Count(s, c) == Cardinality({i \in 1..Len(s) : s[i] = c})

\* sub occurs in s at position i.
StartsAt(s, i, sub) ==
    i + Len(sub) - 1 <= Len(s) /\ SubSeq(s, i, i + Len(sub) - 1) = sub

Contains(s, sub) == \E i \in 1..Len(s) : StartsAt(s, i, sub)

RECURSIVE SumCounts(_)
SumCounts(c) == IF c = <<>> THEN 0 ELSE c[1][2] + SumCounts(Tail(c))

\* The lines yielded so far, as read_lines strips them.
Consumed == [i \in 1..idx |-> RStripNewline(source[i])]

IsMalformed(l) == parse_log_line(l) = None

\* C1: total_lines = parsed_lines + malformed_lines after every processed
\* line, and in the final summary (the report's rows and the printed totals).
C1_TotalIsSum ==
    /\ pc \in {"loop", "done"} => total_lines = parsed_lines + malformed_lines
    /\ pc = "done" =>
          /\ stdout[2].total = stdout[2].parsed + stdout[2].malformed
          /\ stdout[2].total = total_lines
          /\ out_file.summary[2] =
                 tr(<<<<"T", "o", "t", "a", "l", " ", "l", "i", "n", "e", "s">>,
                      Str(parsed_lines + malformed_lines)>>)

\* A pass over more malformed lines than the sample holds, and parsed ones.
C1_Witness ==
    pc = "done" /\ parsed_lines > 0 /\ malformed_lines > SampleCap

\* C2: errors_sample is the first min(50, malformed_lines) malformed lines in
\* the order read, text unchanged; it never holds more than 50; malformed
\* lines past the cap are still counted.
C2_SampleIsFirstMalformed ==
    pc \in {"loop", "done"} =>
        LET bad == SelectSeq(Consumed, IsMalformed)
        IN  /\ malformed_lines = Len(bad)
            /\ total_lines = idx
            /\ Len(errors_sample) <= SampleCap
            /\ errors_sample = SubSeq(bad, 1, Min(SampleCap, malformed_lines))

\* Malformed lines arrived after the sample was full.
C2_Witness ==
    /\ pc = "loop"
    /\ malformed_lines > SampleCap
    /\ Len(errors_sample) = SampleCap
    /\ parsed = None

\* The result `top` ranks table `c` for requested count n.
IsTopK(top, c, n) ==
    /\ Len(top) = Min(Max(1, n), Len(c))
    /\ \A i \in 1..Len(top) : \E j \in 1..Len(c) : top[i] = c[j]
    /\ \A i, j \in 1..Len(top) : i # j => top[i][1] # top[j][1]
    /\ \A i \in 1..(Len(top) - 1) : top[i][2] >= top[i + 1][2]
    /\ \A j \in 1..Len(c) :
           (\A i \in 1..Len(top) : top[i][1] # c[j][1])
               => \A i \in 1..Len(top) : c[j][2] <= top[i][2]
    /\ c = <<>> => top = <<>>

\* C3: for every table and requested count N (0 and negatives clamped to 1)
\* the ranking has min(max(1, N), distinct keys) entries, each an item of the
\* table, no key twice, counts non-increasing, no left-out key above an
\* included one; an empty table gives an empty ranking.
C3_TopK ==
    pc = "done" =>
        /\ IsTopK(top_ips, ip_counts, args.top)
        /\ IsTopK(top_uas, ua_counts, args.top)

\* Three addresses, the last-seen one the most frequent, two requested.
C3_Witness ==
    /\ pc = "done"
    /\ args.top = 2
    /\ Len(ip_counts) = 3
    /\ ip_counts[3][2] > ip_counts[1][2]
    /\ ip_counts[1][2] = ip_counts[2][2]

\* C4: a line that matches gives a record whose size is not negative: 0 for
\* "-", 0 for a token that is no integer, the token's value otherwise.
C4_SizeNonNegative ==
    (Iterated /\ parsed # None) =>
        LET tok == Group(line, PatternMatch(line), "size")
        IN  /\ parsed.size >= 0
            /\ tok = <<"-">> => parsed.size = 0
            /\ ~PyInt(tok).ok => parsed.size = 0
            /\ (PyInt(tok).ok /\ PyInt(tok).val >= 0) => parsed.size = PyInt(tok).val

Entities == {AMP, LT, GT, QUOT, APOS}

\* Text with n tags of the template and nothing else that is markup: n "<",
\* n ">", no double quote, and every "&" the start of an entity.
OnlyTemplateMarkup(h, n) ==
    /\ Count(h, "<") = n
    /\ Count(h, ">") = n
    /\ Count(h, "\"") = 0
    /\ \A i \in 1..Len(h) :
           h[i] = "&" => \E e \in Entities : StartsAt(h, i, e)

\* C5: in the report every string from the input (addresses, user agents,
\* status keys, malformed lines, the file name) is escaped: the document has
\* the template's tags and no other "<", ">", "&" or double quote.
C5_Escaped ==
    pc = "done" =>
        /\ OnlyTemplateMarkup(out_file.title, 0)
        /\ OnlyTemplateMarkup(out_file.now, 0)
        /\ \A i \in 1..4 : OnlyTemplateMarkup(out_file.summary[i], 6)
        /\ OnlyTemplateMarkup(out_file.rows_ips, 6 * Max(1, Len(top_ips)))
        /\ OnlyTemplateMarkup(out_file.rows_uas, 6 * Max(1, Len(top_uas)))
        /\ OnlyTemplateMarkup(out_file.rows_status, 6 * Max(1, Len(status_counts)))
        /\ OnlyTemplateMarkup(out_file.errors_html,
                              IF errors_sample = <<>> THEN 2
                              ELSE 2 + 4 * Min(ShownErrors, Len(errors_sample)))

\* Markup in a ranked user agent, in a ranked address and in a sampled line.
C5_Witness ==
    /\ pc = "done"
    /\ \E i \in 1..Len(top_uas) : Count(top_uas[i][1], "<") > 0
    /\ \E i \in 1..Len(top_ips) : Count(top_ips[i][1], "&") > 0
    /\ \E i \in 1..Len(errors_sample) : Count(errors_sample[i], "\"") > 0

\* The lines a pass over `source` with cap args.max_lines >= 0 processes.
ExpectedLines ==
    IF args.max_lines = 0 THEN Len(source) ELSE Min(args.max_lines, Len(source))

\* C6: the pass terminates; it processes the first min(M, L) lines (all L
\* when M = 0) in source order, whatever lines are malformed.
C6_PassTerminates ==
    /\ <>(pc \in {"done", "exit"})
    /\ [](pc = "done" => total_lines = ExpectedLines /\ idx = ExpectedLines)
    /\ [][total_lines' # total_lines =>
             /\ total_lines' = total_lines + 1
             /\ total_lines' <= ExpectedLines
             /\ line' = RStripNewline(source[total_lines'])]_vars

\* A capped pass that stopped before the end of a file, after a malformed
\* line and a parsed one.
C6_Witness ==
    /\ pc = "done"
    /\ args.max_lines > 0
    /\ args.max_lines < Len(source)
    /\ total_lines = args.max_lines
    /\ malformed_lines > 0
    /\ parsed_lines > 0

Front(s) == SubSeq(s, 1, Len(s) - 1)

\* A character that is not whitespace follows the last double quote.
TextAfterLastQuote(l) ==
    \E i \in 1..Len(l) :
        /\ ~IsSpace(l[i])
        /\ l[i] # "\""
        /\ \A j \in (i + 1)..Len(l) : l[j] # "\""

\* The request "G / H" of the parser's lines lacks a quote.
RequestQuoteMissing(l) ==
    \/ ~Contains(l, <<"\"", "G">>)
    \/ ~Contains(l, <<"H", "\"">>)

\* C7 as stated: any extra character before or after a line that matches,
\* whitespace included, a missing closing bracket or a missing quote of the
\* request makes the line malformed.
C7_AnyExtraCharacterRejected ==
    Iterated =>
        /\ (line # <<>> /\ ~IsMalformed(Tail(line))) => parsed = None
        /\ (line # <<>> /\ ~IsMalformed(Front(line))) => parsed = None
        /\ ~Contains(line, <<"]">>) => parsed = None
        /\ RequestQuoteMissing(line) => parsed = None

\* C7, amended: whitespace before the address, a character that is not
\* whitespace after the user agent's closing quote, a missing closing
\* bracket (no "]" in the line) or a missing quote of the request (fewer
\* than the pattern's six quotes) makes the line malformed; whitespace after
\* a line that matches is accepted, and a character that is not whitespace
\* before it becomes part of the address.
C7_Anchored ==
    Iterated =>
        /\ (line # <<>> /\ IsSpace(line[1])) => parsed = None
        /\ TextAfterLastQuote(line) => parsed = None
        /\ ~Contains(line, <<"]">>) => parsed = None
        /\ RequestQuoteMissing(line) => parsed = None
        /\ Count(line, "\"") < Count(LogLine(<<>>, <<>>, <<>>, Q, Q, <<>>, <<>>, <<>>, <<>>), "\"")
               => parsed = None
        /\ (line # <<>> /\ IsSpace(line[Len(line)]) /\ ~IsMalformed(Front(line)))
               => parsed = parse_log_line(Front(line))
        /\ (line # <<>> /\ ~IsSpace(line[1]) /\ ~IsMalformed(Tail(line)))
               => parsed = [parse_log_line(Tail(line)) EXCEPT
                               !.ip = <<line[1]>> \o @]

\* A line that matches, with one character put after it, is malformed.
C7_Witness ==
    /\ Iterated
    /\ parsed = None
    /\ TextAfterLastQuote(line)
    /\ ~IsMalformed(Front(line))

\* C8: when the input is no file, main returns non-zero with an error
\* message and nothing else happened: no line read, no counter or table
\* created or changed, no report made or written.
C8_MissingInput ==
    (~fs_isfile /\ pc # "start") =>
        /\ pc = "exit"
        /\ rc = <<1>>
        /\ Len(stderr) = 1
        /\ stderr[1].path = args.input
        /\ stdout = <<>>
        /\ idx = 0
        /\ locals = {}
        /\ total_lines = 0 /\ parsed_lines = 0 /\ malformed_lines = 0
        /\ errors_sample = <<>>
        /\ ip_counts = <<>> /\ ua_counts = <<>> /\ status_counts = <<>>
        /\ html_out = None
        /\ out_file = None

C8_Witness == pc = "exit" /\ ~fs_isfile /\ rc # <<>>

RECURSIVE unescape(_)
\* The text an escaped string stands for: each entity read as its character.
unescape(h) ==
    IF h = <<>> THEN <<>>
    ELSE IF StartsAt(h, 1, AMP) THEN <<"&">> \o unescape(SubSeq(h, Len(AMP) + 1, Len(h)))
    ELSE IF StartsAt(h, 1, LT) THEN <<"<">> \o unescape(SubSeq(h, Len(LT) + 1, Len(h)))
    ELSE IF StartsAt(h, 1, GT) THEN <<">">> \o unescape(SubSeq(h, Len(GT) + 1, Len(h)))
    ELSE IF StartsAt(h, 1, QUOT) THEN <<"\"">> \o unescape(SubSeq(h, Len(QUOT) + 1, Len(h)))
    ELSE IF StartsAt(h, 1, APOS) THEN <<"'">> \o unescape(SubSeq(h, Len(APOS) + 1, Len(h)))
    ELSE <<Head(h)>> \o unescape(Tail(h))

CODE_OPEN  == <<"<", "c", "o", "d", "e", ">">>
CODE_CLOSE == <<"<", "/", "c", "o", "d", "e", ">">>

\* The positions where sub starts in s, ascending.
Occurrences(s, sub) ==
    LET at == {i \in 1..Len(s) : StartsAt(s, i, sub)}
    IN  [k \in 1..Cardinality(at) |->
            CHOOSE i \in at : Cardinality({j \in at : j < i}) = k - 1]

\* The entries a reader of the malformed-lines section sees: the text of each
\* <code> element, in document order.
ListedLines(h) ==
    LET opens  == Occurrences(h, CODE_OPEN)
        closes == Occurrences(h, CODE_CLOSE)
    IN  [k \in 1..Len(opens) |->
            unescape(SubSeq(h, opens[k] + Len(CODE_OPEN), closes[k] - 1))]

\* C9: the malformed-lines section lists the first min(20, len) entries of
\* the sample, in order; the placeholder shows if and only if the sample is
\* empty.
C9_FirstTwentyListed ==
    pc = "done" =>
        /\ Len(Occurrences(out_file.errors_html, CODE_OPEN))
               = Len(Occurrences(out_file.errors_html, CODE_CLOSE))
        /\ ListedLines(out_file.errors_html)
               = SubSeq(errors_sample, 1, Min(ShownErrors, Len(errors_sample)))
        /\ Contains(out_file.errors_html, NO_ERRORS) <=> errors_sample = <<>>

\* A report of a sample that holds more than the section shows.
C9_Witness ==
    /\ pc = "done"
    /\ Len(errors_sample) = SampleCap
    /\ Len(ListedLines(out_file.errors_html)) = ShownErrors

\* A table whose counts sum to n, each at least 1, no key twice.
TableOf(c, n) ==
    /\ SumCounts(c) = n
    /\ \A i \in 1..Len(c) : c[i][2] >= 1
    /\ \A i, j \in 1..Len(c) : i # j => c[i][1] # c[j][1]

\* c2 is c with exactly 1 added to one key.
OneMore(c, c2) ==
    /\ \A i \in 1..Len(c) : HasKey(c2, c[i][1])
    /\ \E j \in 1..Len(c2) :
           /\ c2[j][2] = CountOf(c, c2[j][1]) + 1
           /\ \A i \in 1..Len(c2) : i # j => c2[i][2] = CountOf(c, c2[i][1])

\* C10: after every processed line each table's counts sum to parsed_lines
\* with every count >= 1; a malformed line leaves the tables and parsed_lines
\* unchanged; a parsed line leaves malformed_lines and errors_sample
\* unchanged and adds exactly 1 to one key of each table.
C10_TablesFollowParsedLines ==
    [][ /\ pc' \in {"loop", "done"} =>
              /\ TableOf(ip_counts', parsed_lines')
              /\ TableOf(ua_counts', parsed_lines')
              /\ TableOf(status_counts', parsed_lines')
        /\ total_lines' # total_lines =>
              IF parsed' = None
              THEN /\ UNCHANGED <<ip_counts, ua_counts, status_counts, parsed_lines>>
                   /\ malformed_lines' = malformed_lines + 1
              ELSE /\ UNCHANGED <<malformed_lines, errors_sample>>
                   /\ parsed_lines' = parsed_lines + 1
                   /\ OneMore(ip_counts, ip_counts')
                   /\ OneMore(ua_counts, ua_counts')
                   /\ OneMore(status_counts, status_counts')
                   /\ CountOf(ip_counts', parsed'.ip) = CountOf(ip_counts, parsed'.ip) + 1
                   /\ CountOf(ua_counts', parsed'.ua) = CountOf(ua_counts, parsed'.ua) + 1
                   /\ CountOf(status_counts', parsed'.status)
                          = CountOf(status_counts, parsed'.status) + 1
      ]_vars

\* Tables with several keys, after parsed and malformed lines.
C10_Witness ==
    /\ pc = "loop"
    /\ parsed # None
    /\ malformed_lines > 0
    /\ Len(ip_counts) >= 2
    /\ \E i \in 1..Len(ua_counts) : ua_counts[i][2] >= 2

====
